---- MODULE Spec2Model ----
(***************************************************************************)
(* Authorization and audit core of the auto-ecole backend: the guard chain *)
(* (JwtAuthGuard -> TenantGuard -> RolesGuard), the students service with  *)
(* its tenant checks, and the audit service.  One request is a record that *)
(* walks through guards, the validation pipe and the steps (awaits) of its *)
(* handler; the database is the triple users / students / auditLogs.       *)
(***************************************************************************)
EXTENDS Integers, Sequences, FiniteSets, TLC

VARIABLES
    users,      \* table User:    id -> [email, role, tenantId]
    students,   \* table Student: id -> [userId, tenantId, status, archivedAt, minutesPurchased, minutesUsed, neph]
    auditLogs,  \* table AuditLog: sequence of records, in insertion order
    nextId,     \* next fresh primary key per table (ids are never reused)
    reqs,       \* HTTP requests being served: slot -> request record
    issued,     \* number of requests received so far
    auth        \* browser: state of AuthProvider, localStorage, calls in flight

vars == <<users, students, auditLogs, nextId, reqs, issued, auth>>

(***************************************************************************)
(* Bounds of the model                                                     *)
(***************************************************************************)
\* number of requests the server receives in one behaviour
MaxRequests == 2

\* number of audit records in the store when the audit reads start
MaxTrail == 2

(***************************************************************************)
(* Closed sets                                                             *)
(***************************************************************************)
Role == {"ADMIN", "SECRETARY", "INSTRUCTOR", "STUDENT"}

Tenants == {"tA", "tB"}

Slots == {"r1", "r2"}

\* JavaScript truthiness of a string-or-nullish value
Falsy(v) == v \in {"undefined", "null", ""}

Range(seq) == {seq[i] : i \in 1..Len(seq)}

(***************************************************************************)
(* Role metadata (@Roles) and the guards                                   *)
(***************************************************************************)
\* metadata absent (no @Roles decorator at that level)
NoMeta == [defined |-> FALSE, roles |-> <<>>]

\* @Roles(...roles) = SetMetadata(ROLES_KEY, roles)
Roles(roles) == [defined |-> TRUE, roles |-> roles]

\* mutant of getAllAndOverride: the class metadata wins over the handler's
getAllAndOverrideClassFirst(handlerMeta, classMeta) ==
    IF classMeta.defined THEN classMeta ELSE handlerMeta

\* Reflector.getAllAndOverride(ROLES_KEY, [handler, class]): first defined one
getAllAndOverride(handlerMeta, classMeta) ==
    IF handlerMeta.defined THEN handlerMeta ELSE classMeta

\* request.user values: undefined, null, or an object whose tenantId may be
\* missing ("undefined"), null, empty or a tenant id
NoUser == [kind |-> "undefined", userId |-> 0, email |-> "", tenantId |-> "undefined", role |-> ""]

NullUser == [kind |-> "null", userId |-> 0, email |-> "", tenantId |-> "undefined", role |-> ""]

\* mutant of RolesGuardCanActivate: every() instead of some()
RolesGuardCanActivateEvery(handlerMeta, classMeta, user) ==
    LET requiredRoles == getAllAndOverride(handlerMeta, classMeta)
    IN  IF ~requiredRoles.defined THEN "true"
        ELSE IF \A i \in 1..Len(requiredRoles.roles) :
                    user.kind = "object" /\ user.role = requiredRoles.roles[i]
             THEN "true" ELSE "false"

\* RolesGuard.canActivate: "true", "false", or "TypeError" (user.role read on
\* a nullish user inside the some() callback)
RolesGuardCanActivate(handlerMeta, classMeta, user) ==
    LET requiredRoles == getAllAndOverride(handlerMeta, classMeta)
    IN  IF ~requiredRoles.defined THEN "true"
        ELSE IF Len(requiredRoles.roles) > 0 /\ user.kind # "object" THEN "TypeError"
        ELSE IF \E i \in 1..Len(requiredRoles.roles) : user.role = requiredRoles.roles[i]
             THEN "true" ELSE "false"

\* mutant of TenantGuardCanActivate: a STUDENT is refused whatever its tenant
TenantGuardCanActivateStaff(user) ==
    IF user.kind = "object" /\ ~Falsy(user.tenantId) /\ user.role # "STUDENT"
    THEN "true" ELSE "false"

\* mutant of TenantGuardCanActivate: any user object passes, !!user
TenantGuardCanActivateAnyUser(user) ==
    IF user.kind = "object" THEN "true" ELSE "false"

\* TenantGuard.canActivate: !!(user && user.tenantId)
TenantGuardCanActivate(user) ==
    IF user.kind = "object" /\ ~Falsy(user.tenantId) THEN "true" ELSE "false"

(***************************************************************************)
(* Database (Prisma client)                                                *)
(***************************************************************************)
\* the tables as one value, so that a handler step is a function of it
Db == [users |-> users, students |-> students, auditLogs |-> auditLogs, nextId |-> nextId]

\* result of a findUnique that matched nothing (null)
NullRow == [found |-> FALSE]

FoundRow(id, row) == [found |-> TRUE, id |-> id, row |-> row]

\* column of a Student row; the primary key is the map's key
StudentField(db, sid, f) == IF f = "id" THEN sid ELSE db.students[sid][f]

\* rows of Student a where-predicate (a conjunction of equalities) selects
studentMatch(db, where) ==
    {sid \in DOMAIN db.students : \A f \in DOMAIN where : StudentField(db, sid, f) = where[f]}

\* prisma.student.findUnique({ where })
studentFindUnique(db, where) ==
    LET m == studentMatch(db, where)
    IN  IF m = {} THEN NullRow
        ELSE LET sid == CHOOSE x \in m : TRUE IN FoundRow(sid, db.students[sid])

\* prisma.student.findMany({ where })
studentFindMany(db, where) == studentMatch(db, where)

\* prisma.student.update({ where, data }); ok = FALSE is error P2025
studentUpdate(db, where, data) ==
    LET m == studentMatch(db, where)
    IN  IF m = {} THEN [ok |-> FALSE, db |-> db]
        ELSE LET sid == CHOOSE x \in m : TRUE
                 old == db.students[sid]
                 new == [f \in DOMAIN old |-> IF f \in DOMAIN data THEN data[f] ELSE old[f]]
             IN  [ok |-> TRUE, db |-> [db EXCEPT !.students[sid] = new]]

\* prisma.student.update({ where, data: { [field]: { increment: n } } })
studentIncrement(db, where, field, n) ==
    LET m == studentMatch(db, where)
    IN  IF m = {} THEN [ok |-> FALSE, db |-> db]
        ELSE LET sid == CHOOSE x \in m : TRUE
             IN  [ok |-> TRUE, db |-> [db EXCEPT !.students[sid][field] = @ + n]]

\* prisma.student.delete({ where })
studentDelete(db, where) ==
    LET m == studentMatch(db, where)
    IN  IF m = {} THEN [ok |-> FALSE, db |-> db]
        ELSE LET sid == CHOOSE x \in m : TRUE
             IN  [ok |-> TRUE,
                  db |-> [db EXCEPT !.students = [x \in DOMAIN db.students \ {sid} |-> db.students[x]]]]

\* prisma.user.findUnique({ where: { id } })
userFindById(db, uid) ==
    IF uid \in DOMAIN db.users THEN FoundRow(uid, db.users[uid]) ELSE NullRow

\* prisma.user.findUnique({ where: { email } })
userFindByEmail(db, email) ==
    LET m == {u \in DOMAIN db.users : db.users[u].email = email}
    IN  IF m = {} THEN NullRow
        ELSE LET uid == CHOOSE x \in m : TRUE IN FoundRow(uid, db.users[uid])

\* prisma.user.update({ where: { id }, data: { email } })
userUpdateEmail(db, uid, email) ==
    IF uid \notin DOMAIN db.users THEN [ok |-> FALSE, db |-> db]
    ELSE [ok |-> TRUE, db |-> [db EXCEPT !.users[uid].email = email]]

\* prisma.user.delete({ where: { id } })
userDelete(db, uid) ==
    IF uid \notin DOMAIN db.users THEN [ok |-> FALSE, db |-> db]
    ELSE [ok |-> TRUE,
          db |-> [db EXCEPT !.users = [x \in DOMAIN db.users \ {uid} |-> db.users[x]]]]

\* prisma.user.create + prisma.student.create of StudentsService.create
userCreate(db, row) ==
    [db EXCEPT !.users = [x \in DOMAIN db.users \cup {db.nextId.user} |->
                             IF x = db.nextId.user THEN row ELSE db.users[x]],
               !.nextId.user = @ + 1]

studentCreate(db, row) ==
    [db EXCEPT !.students = [x \in DOMAIN db.students \cup {db.nextId.student} |->
                                IF x = db.nextId.student THEN row ELSE db.students[x]],
               !.nextId.student = @ + 1]

\* mutant of auditLogCreate: the record is inserted twice
auditLogCreateTwice(db, data) == [db EXCEPT !.auditLogs = Append(Append(@, data), data)]

\* prisma.auditLog.create({ data })
auditLogCreate(db, data) == [db EXCEPT !.auditLogs = Append(@, data)]

(***************************************************************************)
(* Requests                                                                *)
(***************************************************************************)
\* Authorization header: absent, a token passport-jwt rejects (malformed, bad
\* signature, expired), or a valid token with its claims { sub, tenantId, role }
NoCred == [kind |-> "none", sub |-> 0, tenantId |-> "", role |-> ""]

BadCred == [kind |-> "invalid", sub |-> 0, tenantId |-> "", role |-> ""]

\* request payload (body / query string); "absent" and -1 stand for a property
\* that is not sent
NoBody == [tenantId |-> "absent", email |-> "absent", minutes |-> 0, status |-> "absent",
           minutesPurchased |-> -1, archivedAt |-> "absent", neph |-> "absent"]

NoHours == [minutesPurchased |-> 0, minutesUsed |-> 0, minutesRemaining |-> 0]

IdleReq ==
    [pc |-> "idle", route |-> "", cred |-> NoCred, id |-> 0, body |-> NoBody,
     guards |-> <<>>, handlerRoles |-> NoMeta, classRoles |-> NoMeta,
     ran |-> <<>>, denied |-> FALSE, user |-> NoUser, entered |-> FALSE, status |-> 0,
     student |-> NullRow, wheres |-> {}, response |-> {}, remaining |-> 0,
     hours |-> NoHours]

\* mutant of StudentsRoute: @UseGuards(RolesGuard, JwtAuthGuard)
StudentsRouteRolesFirst(handlerRoles, dto, entry) ==
    [guards |-> <<"RolesGuard", "JwtAuthGuard">>, handlerRoles |-> handlerRoles,
     classRoles |-> Roles(<<"ADMIN", "SECRETARY">>), dto |-> dto, entry |-> entry]

\* the controllers' routes: guards of @UseGuards in order, @Roles on the
\* handler and on the class, whether @Body() is a DTO class (whitelisted by
\* the ValidationPipe), and the first await of the handler
StudentsRoute(handlerRoles, dto, entry) ==
    [guards |-> <<"JwtAuthGuard", "RolesGuard">>, handlerRoles |-> handlerRoles,
     classRoles |-> Roles(<<"ADMIN", "SECRETARY">>), dto |-> dto, entry |-> entry]

RouteTable ==
    [ students_create      |-> StudentsRoute(NoMeta, TRUE, "create"),
      students_findAll     |-> StudentsRoute(NoMeta, FALSE, "findAll"),
      students_findOne     |-> StudentsRoute(NoMeta, FALSE, "findOne"),
      students_update      |-> StudentsRoute(NoMeta, TRUE, "findOne"),
      students_archive     |-> StudentsRoute(NoMeta, FALSE, "findOne"),
      students_restore     |-> StudentsRoute(NoMeta, FALSE, "findOne"),
      students_remove      |-> StudentsRoute(Roles(<<"ADMIN">>), FALSE, "findOne"),
      students_getHours    |-> StudentsRoute(NoMeta, FALSE, "getRemainingMinutes"),
      students_addPurchasedHours |-> StudentsRoute(NoMeta, FALSE, "findOne"),
      students_addUsedHours      |-> StudentsRoute(NoMeta, FALSE, "findOne"),
      auth_getMe           |-> [guards |-> <<"JwtAuthGuard">>, handlerRoles |-> NoMeta,
                                classRoles |-> NoMeta, dto |-> FALSE, entry |-> "getMe"],
      auth_adminOnly       |-> [guards |-> <<"JwtAuthGuard", "RolesGuard">>,
                                handlerRoles |-> Roles(<<"ADMIN">>),
                                classRoles |-> NoMeta, dto |-> FALSE, entry |-> "adminOnly"],
      auth_adminOrSecretary |-> [guards |-> <<"JwtAuthGuard", "RolesGuard">>,
                                handlerRoles |-> Roles(<<"ADMIN", "SECRETARY">>),
                                classRoles |-> NoMeta, dto |-> FALSE, entry |-> "adminOrSecretary"] ]

RouteNames == DOMAIN RouteTable

StudentRoutes == {"students_create", "students_findAll", "students_findOne", "students_update",
                  "students_archive", "students_restore", "students_remove", "students_getHours",
                  "students_addPurchasedHours", "students_addUsedHours"}

\* routes whose handler takes @Param('id')
IdRoutes == StudentRoutes \ {"students_create", "students_findAll"}

\* a handler step: the tables and the request after it
Res(db, r) == [db |-> db, req |-> r]

\* an exception reaching the exception filters: the response has that status
Throw(r, status) == [r EXCEPT !.pc = "done", !.status = status]

\* the handler returned: the response is sent with the route's success status
Return(r, status) == [r EXCEPT !.pc = "done", !.status = status]

\* the guard that runs next
Guard(r) == r.guards[Len(r.ran) + 1]

\* a guard let the request through: next guard, or pipes and handler
Pass(r) ==
    [r EXCEPT !.ran = Append(@, Guard(r)),
              !.pc = IF Len(r.ran) + 1 = Len(r.guards) THEN "pipe" ELSE "guard"]

\* a guard stopped the request with that status
Deny(r, status) ==
    [r EXCEPT !.ran = Append(@, Guard(r)), !.denied = TRUE, !.pc = "done", !.status = status]

\* guards the request passed
Passed(r) == IF r.denied THEN SubSeq(r.ran, 1, Len(r.ran) - 1) ELSE r.ran

(***************************************************************************)
(* Principal resolution                                                    *)
(***************************************************************************)
\* AuthService.validateUser
validateUser(db, userId) == userFindById(db, userId)

\* mutant of JwtStrategyValidate: trusts the claims, no lookup of the subject
JwtStrategyValidateClaims(db, payload) ==
    [ok |-> TRUE,
     user |-> [kind |-> "object", userId |-> payload.sub, email |-> "",
               tenantId |-> payload.tenantId, role |-> payload.role]]

\* mutant of JwtStrategyValidate: a subject that is gone yields a principal
\* made of what the token holds, without e-mail and tenantId
JwtStrategyValidatePartial(db, payload) ==
    LET user == validateUser(db, payload.sub)
    IN  IF ~user.found
        THEN [ok |-> TRUE,
              user |-> [kind |-> "object", userId |-> payload.sub, email |-> "",
                        tenantId |-> "undefined", role |-> payload.role]]
        ELSE [ok |-> TRUE,
              user |-> [kind |-> "object", userId |-> user.id, email |-> user.row.email,
                        tenantId |-> user.row.tenantId, role |-> user.row.role]]

\* mutant of JwtStrategyValidate: the subject is looked up, but tenantId and
\* role are copied from the token's claims
JwtStrategyValidateStale(db, payload) ==
    LET user == validateUser(db, payload.sub)
    IN  IF ~user.found THEN [ok |-> FALSE, user |-> NoUser]
        ELSE [ok |-> TRUE,
              user |-> [kind |-> "object", userId |-> user.id, email |-> user.row.email,
                        tenantId |-> payload.tenantId, role |-> payload.role]]

\* JwtStrategy.validate: ok = FALSE is the UnauthorizedException
JwtStrategyValidate(db, payload) ==
    LET user == validateUser(db, payload.sub)
    IN  IF ~user.found THEN [ok |-> FALSE, user |-> NoUser]
        ELSE [ok |-> TRUE,
              user |-> [kind |-> "object", userId |-> user.id, email |-> user.row.email,
                        tenantId |-> user.row.tenantId, role |-> user.row.role]]

\* JwtAuthGuard (AuthGuard('jwt')): token extraction and verification by
\* passport-jwt, then JwtStrategy.validate; the result becomes request.user
JwtAuthGuardStep(db, r) ==
    IF r.cred.kind # "valid" THEN Res(db, Deny(r, 401))
    ELSE LET v == JwtStrategyValidate(db, r.cred)
         IN  IF ~v.ok THEN Res(db, Deny(r, 401))
             ELSE Res(db, [Pass(r) EXCEPT !.user = v.user])

\* what the framework does with a guard's canActivate result: false is a
\* ForbiddenException, a thrown TypeError an internal server error
GuardOutcome(db, r, result) ==
    IF result = "true" THEN Res(db, Pass(r))
    ELSE IF result = "false" THEN Res(db, Deny(r, 403))
    ELSE Res(db, Deny(r, 500))

TenantGuardStep(db, r) == GuardOutcome(db, r, TenantGuardCanActivate(r.user))

RolesGuardStep(db, r) ==
    GuardOutcome(db, r, RolesGuardCanActivate(r.handlerRoles, r.classRoles, r.user))

\* global ValidationPipe { whitelist, forbidNonWhitelisted }: a DTO body with a
\* property the DTO class does not declare (tenantId) is a BadRequestException;
\* @Body('minutes'), @Query(...) and @Param(...) pick single values
ValidationPipeStep(db, r) ==
    IF RouteTable[r.route].dto /\ r.body.tenantId # "absent"
    THEN Res(db, Throw(r, 400))
    ELSE Res(db, [r EXCEPT !.pc = RouteTable[r.route].entry, !.entered = TRUE])

(***************************************************************************)
(* StudentsController / StudentsService                                    *)
(***************************************************************************)
\* mutant of TenantArg: the tenantId claim of the token
TenantArgFromToken(r) == r.cred.tenantId

\* mutant of TenantArg: a tenant id sent by the client takes precedence
TenantArgFromPayload(r) ==
    IF r.body.tenantId # "absent" THEN r.body.tenantId ELSE r.user.tenantId

\* the tenantId argument every controller method passes: req.user.tenantId
TenantArg(r) == r.user.tenantId

\* the where-predicate of every student.update / student.delete of the service
MutationWhere(id, tenantId) == [id |-> id]

\* what a response shows of a Student row
View(sid, row) == [id |-> sid, tenantId |-> row.tenantId]

\* the request issued a write with that predicate
Noted(r, op, where) == [r EXCEPT !.wheres = @ \cup {[op |-> op, where |-> where]}]

\* mutant of InsufficientMinutes: the consumption is compared with nothing
InsufficientMinutesNever(student, minutes) == FALSE

\* StudentsService.addUsedMinutes: newUsedMinutes > student.minutesPurchased
InsufficientMinutes(student, minutes) ==
    student.minutesUsed + minutes > student.minutesPurchased

\* mutant of findOne: the tenant check is missing
findOneUnchecked(db, id, tenantId) ==
    LET student == studentFindUnique(db, [id |-> id])
    IN  IF ~student.found THEN [error |-> 404, student |-> student]
        ELSE [error |-> 0, student |-> student]

\* StudentsService.findOne: error 0 is a normal return
findOne(db, id, tenantId) ==
    LET student == studentFindUnique(db, [id |-> id])
    IN  IF ~student.found THEN [error |-> 404, student |-> student]
        ELSE IF student.row.tenantId # tenantId THEN [error |-> 403, student |-> student]
        ELSE [error |-> 0, student |-> student]

\* StudentsService.create: one transaction
CreateStep(db, r) ==
    LET tenantId == TenantArg(r)
        existingUser == userFindByEmail(db, r.body.email)
    IN  IF existingUser.found THEN Res(db, Throw(r, 409))
        ELSE IF r.body.neph # "absent" /\ studentFindUnique(db, [neph |-> r.body.neph]).found
        THEN Res(db, Throw(r, 409))
        ELSE LET newUserId == db.nextId.user
                 newStudentId == db.nextId.student
                 db1 == userCreate(db, [email |-> r.body.email, role |-> "STUDENT",
                                        tenantId |-> tenantId])
                 row == [userId |-> newUserId, tenantId |-> tenantId,
                         status |-> IF r.body.status = "absent" THEN "PROSPECT"
                                    ELSE r.body.status,
                         archivedAt |-> "null",
                         minutesPurchased |-> IF r.body.minutesPurchased = -1 THEN 0
                                              ELSE r.body.minutesPurchased,
                         minutesUsed |-> 0,
                         neph |-> IF r.body.neph = "absent" THEN "null" ELSE r.body.neph]
                 db2 == studentCreate(db1, row)
             IN  Res(db2, [Return(r, 201) EXCEPT !.id = newStudentId,
                                                 !.response = {View(newStudentId, row)}])

\* StudentsService.findAll (includeArchived = false)
FindAllStep(db, r) ==
    LET found == studentFindMany(db, [tenantId |-> TenantArg(r), archivedAt |-> "null"])
    IN  Res(db, [Return(r, 200) EXCEPT !.response = {View(sid, db.students[sid]) : sid \in found}])

\* the call of findOne that opens findOne, update, archive, restore, remove,
\* addPurchasedMinutes and addUsedMinutes, with the synchronous code up to
\* the next await
FindOneStep(db, r) ==
    LET f == findOne(db, r.id, TenantArg(r))
        r1 == [r EXCEPT !.student = f.student]
    IN  IF f.error # 0 THEN Res(db, Throw(r1, f.error))
        ELSE CASE r.route = "students_findOne" ->
                    Res(db, [Return(r1, 200) EXCEPT !.response = {View(r.id, f.student.row)}])
               [] r.route = "students_update" ->
                    Res(db, [r1 EXCEPT !.pc = IF r.body.email # "absent" THEN "update_email"
                                              ELSE IF r.body.neph # "absent" THEN "update_neph"
                                              ELSE "update_write"])
               [] r.route = "students_archive" -> Res(db, [r1 EXCEPT !.pc = "archive_write"])
               [] r.route = "students_restore" ->
                    IF f.student.row.archivedAt = "null" THEN Res(db, Throw(r1, 409))
                    ELSE Res(db, [r1 EXCEPT !.pc = "restore_write"])
               [] r.route = "students_remove" -> Res(db, [r1 EXCEPT !.pc = "remove_tx"])
               [] r.route = "students_addPurchasedHours" ->
                    Res(db, [r1 EXCEPT !.pc = "purchase_write"])
               [] r.route = "students_addUsedHours" ->
                    IF InsufficientMinutes(f.student.row, r.body.minutes)
                    THEN Res(db, Throw(r1, 409))
                    ELSE Res(db, [r1 EXCEPT !.pc = "use_write"])
               [] r.route = "students_getHours" ->
                    Res(db, [Return(r1, 200) EXCEPT
                                !.hours = [minutesPurchased |-> f.student.row.minutesPurchased,
                                           minutesUsed |-> f.student.row.minutesUsed,
                                           minutesRemaining |-> r.remaining]])

\* StudentsService.update, email branch: the student is read again, the
\* e-mail is checked for uniqueness and written to the User row
UpdateEmailStep(db, r) ==
    LET student == studentFindUnique(db, [id |-> r.id])
    IN  IF ~student.found THEN Res(db, Throw(r, 404))
        ELSE LET existingUser == userFindByEmail(db, r.body.email)
             IN  IF existingUser.found /\ existingUser.id # student.row.userId
                 THEN Res(db, Throw(r, 409))
                 ELSE LET u == userUpdateEmail(db, student.row.userId, r.body.email)
                      IN  IF ~u.ok THEN Res(db, Throw(r, 404))
                          ELSE Res(u.db, [r EXCEPT !.pc = IF r.body.neph # "absent"
                                                          THEN "update_neph"
                                                          ELSE "update_write"])

\* StudentsService.update, NEPH branch: the NEPH is checked for uniqueness
UpdateNephStep(db, r) ==
    LET existingNeph == studentFindUnique(db, [neph |-> r.body.neph])
    IN  IF existingNeph.found /\ existingNeph.id # r.id THEN Res(db, Throw(r, 409))
        ELSE Res(db, [r EXCEPT !.pc = "update_write"])

\* the studentData of StudentsService.update: the DTO without email, password
\* and birthDate; neph when it is not undefined, archivedAt converted when it
\* is not undefined
UpdateData(body) ==
    LET fields == (IF body.status # "absent" THEN {"status"} ELSE {})
                  \cup (IF body.minutesPurchased # -1 THEN {"minutesPurchased"} ELSE {})
                  \cup (IF body.archivedAt # "absent" THEN {"archivedAt"} ELSE {})
                  \cup (IF body.neph # "absent" THEN {"neph"} ELSE {})
    IN  [f \in fields |-> body[f]]

\* StudentsService.update: the final student.update
UpdateWriteStep(db, r) ==
    LET where == MutationWhere(r.id, TenantArg(r))
        u == studentUpdate(db, where, UpdateData(r.body))
        r1 == Noted(r, "student.update", where)
    IN  IF ~u.ok THEN Res(db, Throw(r1, 404))
        ELSE Res(u.db, [Return(r1, 200) EXCEPT !.response = {View(r.id, u.db.students[r.id])}])

\* mutant of ArchiveWriteStep: the audit record is written before the update
ArchiveWriteStepAuditFirst(db, r) == Res(db, [r EXCEPT !.pc = "audit"])

\* StudentsService.archive: the student.update
ArchiveWriteStep(db, r) ==
    LET where == MutationWhere(r.id, TenantArg(r))
        u == studentUpdate(db, where, [archivedAt |-> "date", status |-> "ARCHIVED"])
        r1 == Noted(r, "student.update", where)
    IN  IF ~u.ok THEN Res(db, Throw(r1, 404))
        ELSE Res(u.db, [r1 EXCEPT !.pc = "audit", !.response = {View(r.id, u.db.students[r.id])}])

\* StudentsService.restore: the student.update
RestoreWriteStep(db, r) ==
    LET where == MutationWhere(r.id, TenantArg(r))
        u == studentUpdate(db, where, [archivedAt |-> "null", status |-> "ACTIVE"])
        r1 == Noted(r, "student.update", where)
    IN  IF ~u.ok THEN Res(db, Throw(r1, 404))
        ELSE Res(u.db, [r1 EXCEPT !.pc = "audit", !.response = {View(r.id, u.db.students[r.id])}])

\* mutant of RemoveTxStep: the audit records of the student go with it
RemoveTxStepPurge(db, r) ==
    LET where == MutationWhere(r.id, TenantArg(r))
        d == studentDelete(db, where)
        r1 == Noted(r, "student.delete", where)
    IN  IF ~d.ok THEN Res(db, Throw(r1, 404))
        ELSE LET d2 == userDelete(d.db, r.student.row.userId)
             IN  IF ~d2.ok THEN Res(db, Throw(r1, 404))
                 ELSE Res([d2.db EXCEPT !.auditLogs =
                              SelectSeq(@, LAMBDA a : a.entityId # r.id)],
                          Return(r1, 204))

\* StudentsService.remove: the transaction deleting the Student and its User
RemoveTxStep(db, r) ==
    LET where == MutationWhere(r.id, TenantArg(r))
        d == studentDelete(db, where)
        r1 == Noted(r, "student.delete", where)
    IN  IF ~d.ok THEN Res(db, Throw(r1, 404))
        ELSE LET d2 == userDelete(d.db, r.student.row.userId)
             IN  IF ~d2.ok THEN Res(db, Throw(r1, 404))
                 ELSE Res(d2.db, Return(r1, 204))

\* StudentsService.getRemainingMinutes, first await of getHours
GetRemainingMinutesStep(db, r) ==
    LET f == findOne(db, r.id, TenantArg(r))
        r1 == [r EXCEPT !.student = f.student]
    IN  IF f.error # 0 THEN Res(db, Throw(r1, f.error))
        ELSE Res(db, [r1 EXCEPT !.pc = "findOne",
                                !.remaining = f.student.row.minutesPurchased
                                              - f.student.row.minutesUsed])

\* StudentsService.addPurchasedMinutes: the student.update (increment)
PurchaseWriteStep(db, r) ==
    LET where == MutationWhere(r.id, TenantArg(r))
        u == studentIncrement(db, where, "minutesPurchased", r.body.minutes)
        r1 == Noted(r, "student.update", where)
    IN  IF ~u.ok THEN Res(db, Throw(r1, 404))
        ELSE Res(u.db, [r1 EXCEPT !.pc = "audit", !.response = {View(r.id, u.db.students[r.id])}])

\* StudentsService.addUsedMinutes: the student.update (absolute value)
UseWriteStep(db, r) ==
    LET where == MutationWhere(r.id, TenantArg(r))
        newUsedMinutes == r.student.row.minutesUsed + r.body.minutes
        u == studentUpdate(db, where, [minutesUsed |-> newUsedMinutes])
        r1 == Noted(r, "student.update", where)
    IN  IF ~u.ok THEN Res(db, Throw(r1, 404))
        ELSE Res(u.db, [r1 EXCEPT !.pc = "audit", !.response = {View(r.id, u.db.students[r.id])}])

\* the AuditLogData archive, restore, addPurchasedMinutes and addUsedMinutes
\* hand to AuditService.log
AuditData(r) ==
    LET base == [tenantId |-> TenantArg(r), actorUserId |-> r.user.userId,
                 entityType |-> "Student", entityId |-> r.id]
        st == r.student.row
    IN  CASE r.route = "students_archive" ->
                base @@ [action |-> "STUDENT_ARCHIVED",
                         metadata |-> [previousStatus |-> st.status]]
          [] r.route = "students_restore" ->
                base @@ [action |-> "STUDENT_UPDATED",
                         metadata |-> [action |-> "RESTORED", previousStatus |-> "ARCHIVED",
                                       newStatus |-> "ACTIVE"]]
          [] r.route = "students_addPurchasedHours" ->
                base @@ [action |-> "STUDENT_HOURS_UPDATED",
                         metadata |-> [type |-> "PURCHASE", minutesAdded |-> r.body.minutes,
                                       previousMinutesPurchased |-> st.minutesPurchased,
                                       newMinutesPurchased |-> st.minutesPurchased + r.body.minutes]]
          [] r.route = "students_addUsedHours" ->
                base @@ [action |-> "STUDENT_HOURS_UPDATED",
                         metadata |-> [type |-> "CONSUMPTION", minutesUsed |-> r.body.minutes,
                                       previousMinutesUsed |-> st.minutesUsed,
                                       newMinutesUsed |-> st.minutesUsed + r.body.minutes]]

\* mutant of AuditLogStep: a failed insert is thrown to the caller
AuditLogStepRaises(db, r, ok) ==
    IF ok THEN Res(auditLogCreate(db, AuditData(r)), Return(r, 200))
    ELSE Res(db, Throw(r, 500))

\* AuditService.log: the insert; when it fails (ok = FALSE) the error is
\* caught and logged, and the caller returns its result either way
AuditLogStep(db, r, ok) ==
    IF ok THEN Res(auditLogCreate(db, AuditData(r)), Return(r, 200))
    ELSE Res(db, Return(r, 200))

(***************************************************************************)
(* AuthController                                                          *)
(***************************************************************************)
\* AuthService.getMe
GetMeStep(db, r) ==
    LET user == userFindById(db, r.user.userId)
    IN  IF ~user.found THEN Res(db, Throw(r, 401)) ELSE Res(db, Return(r, 200))

\* AuthController.adminOnly and adminOrSecretary: echo of request.user
EchoStep(db, r) == Res(db, Return(r, 200))

(***************************************************************************)
(* Initial database and the inputs requests are drawn from                 *)
(***************************************************************************)
\* two driving schools: tA with an admin, a secretary, an instructor and the
\* student 1; tB with an admin and the archived student 2
InitUsers ==
    [u \in 1..6 |->
        CASE u = 1 -> [email |-> "e1", role |-> "ADMIN", tenantId |-> "tA"]
          [] u = 2 -> [email |-> "e2", role |-> "SECRETARY", tenantId |-> "tA"]
          [] u = 3 -> [email |-> "e3", role |-> "INSTRUCTOR", tenantId |-> "tA"]
          [] u = 4 -> [email |-> "e4", role |-> "ADMIN", tenantId |-> "tB"]
          [] u = 5 -> [email |-> "e5", role |-> "STUDENT", tenantId |-> "tA"]
          [] u = 6 -> [email |-> "e6", role |-> "STUDENT", tenantId |-> "tB"]]

InitStudents ==
    [sid \in 1..2 |->
        IF sid = 1
        THEN [userId |-> 5, tenantId |-> "tA", status |-> "ACTIVE", archivedAt |-> "null",
              minutesPurchased |-> 2, minutesUsed |-> 1, neph |-> "n1"]
        ELSE [userId |-> 6, tenantId |-> "tB", status |-> "ARCHIVED", archivedAt |-> "date",
              minutesPurchased |-> 1, minutesUsed |-> 0, neph |-> "n2"]]

\* AuthService.generateToken: the tokens the users obtained at login
generateToken(userId, tenantId, role) ==
    [kind |-> "valid", sub |-> userId, tenantId |-> tenantId, role |-> role]

Credentials ==
    {NoCred, BadCred}
    \cup {generateToken(u, InitUsers[u].tenantId, InitUsers[u].role) : u \in DOMAIN InitUsers}

\* tenant-like value a client may add to a payload
TenantLike == {"absent"} \cup Tenants

\* bodies without a tenant-like value, per route
Bodies(route) ==
    CASE route = "students_create" ->
            {[NoBody EXCEPT !.email = e] : e \in {"e5", "e9"}}
      [] route = "students_update" ->
            {[NoBody EXCEPT !.email = "e9"], [NoBody EXCEPT !.email = "e4"],
             [NoBody EXCEPT !.status = "ACTIVE"], [NoBody EXCEPT !.minutesPurchased = 0],
             [NoBody EXCEPT !.archivedAt = "date"],
             [NoBody EXCEPT !.email = "e9", !.neph = "n2"], [NoBody EXCEPT !.neph = "n3"]}
      [] route = "students_addPurchasedHours" -> {[NoBody EXCEPT !.minutes = 1]}
      [] route = "students_addUsedHours" -> {[NoBody EXCEPT !.minutes = m] : m \in {1, 2}}
      [] OTHER -> {NoBody}

\* null where the frontend expects a User (useState<User | null>, localStorage)
NoOne == [id |-> "null", email |-> "null"]

\* AuthProvider as it is constructed, with an empty localStorage: useState(null),
\* useState(true), the mount effect not yet run, no call of authApi in flight
NoSession ==
    [user |-> NoOne, isLoading |-> TRUE, access_token |-> "null", savedUser |-> NoOne,
     loadUser |-> "mount", login |-> "idle", register |-> "idle"]

(***************************************************************************)
(* Actions                                                                 *)
(***************************************************************************)
\* the step of slot s produced res
Run(s, res) ==
    /\ users' = res.db.users
    /\ students' = res.db.students
    /\ auditLogs' = res.db.auditLogs
    /\ nextId' = res.db.nextId
    /\ reqs' = [reqs EXCEPT ![s] = res.req]
    /\ UNCHANGED <<issued, auth>>

At(s, pc) == reqs[s].pc = pc

\* a request arrives and is dispatched to its route; it takes a slot that is
\* free or whose response has been sent
NewRequest(s, route, cred, id, body) ==
    /\ reqs[s].pc \in {"idle", "done"}
    /\ issued < MaxRequests
    /\ issued' = issued + 1
    /\ reqs' = [reqs EXCEPT ![s] =
                  [IdleReq EXCEPT !.pc = "guard", !.route = route, !.cred = cred, !.id = id,
                                  !.body = body,
                                  !.guards = RouteTable[route].guards,
                                  !.handlerRoles = RouteTable[route].handlerRoles,
                                  !.classRoles = RouteTable[route].classRoles]]
    /\ UNCHANGED <<users, students, auditLogs, nextId, auth>>

JwtAuthGuard(s) ==
    /\ At(s, "guard") /\ Guard(reqs[s]) = "JwtAuthGuard"
    /\ Run(s, JwtAuthGuardStep(Db, reqs[s]))

TenantGuard(s) ==
    /\ At(s, "guard") /\ Guard(reqs[s]) = "TenantGuard"
    /\ Run(s, TenantGuardStep(Db, reqs[s]))

RolesGuard(s) ==
    /\ At(s, "guard") /\ Guard(reqs[s]) = "RolesGuard"
    /\ Run(s, RolesGuardStep(Db, reqs[s]))

ValidationPipe(s) == At(s, "pipe") /\ Run(s, ValidationPipeStep(Db, reqs[s]))

Create(s) == At(s, "create") /\ Run(s, CreateStep(Db, reqs[s]))

FindAll(s) == At(s, "findAll") /\ Run(s, FindAllStep(Db, reqs[s]))

FindOne(s) == At(s, "findOne") /\ Run(s, FindOneStep(Db, reqs[s]))

UpdateEmail(s) == At(s, "update_email") /\ Run(s, UpdateEmailStep(Db, reqs[s]))

UpdateNeph(s) == At(s, "update_neph") /\ Run(s, UpdateNephStep(Db, reqs[s]))

UpdateWrite(s) == At(s, "update_write") /\ Run(s, UpdateWriteStep(Db, reqs[s]))

ArchiveWrite(s) == At(s, "archive_write") /\ Run(s, ArchiveWriteStep(Db, reqs[s]))

RestoreWrite(s) == At(s, "restore_write") /\ Run(s, RestoreWriteStep(Db, reqs[s]))

RemoveTx(s) == At(s, "remove_tx") /\ Run(s, RemoveTxStep(Db, reqs[s]))

GetRemainingMinutes(s) ==
    At(s, "getRemainingMinutes") /\ Run(s, GetRemainingMinutesStep(Db, reqs[s]))

PurchaseWrite(s) == At(s, "purchase_write") /\ Run(s, PurchaseWriteStep(Db, reqs[s]))

UseWrite(s) == At(s, "use_write") /\ Run(s, UseWriteStep(Db, reqs[s]))

\* the audit store accepts the insert or is unavailable
AuditLog(s) == At(s, "audit") /\ \E ok \in BOOLEAN : Run(s, AuditLogStep(Db, reqs[s], ok))

GetMe(s) == At(s, "getMe") /\ Run(s, GetMeStep(Db, reqs[s]))

Echo(s) ==
    /\ reqs[s].pc \in {"adminOnly", "adminOrSecretary"}
    /\ Run(s, EchoStep(Db, reqs[s]))

(***************************************************************************)
(* Spec: the server handling requests one after the other                  *)
(***************************************************************************)
Init ==
    /\ users = InitUsers
    /\ students = InitStudents
    /\ auditLogs = <<>>
    /\ nextId = [user |-> 7, student |-> 3]
    /\ auth = NoSession
    /\ reqs = [s \in Slots |-> IdleReq]
    /\ issued = 0

\* identifiers and payloads of the requests to a route: every identifier of a
\* student and the next unused one, every payload, alone or with the
\* identifier of tenant tB added as a tenantId property
Inputs(route) ==
    {<<id, [b EXCEPT !.tenantId = t]>> :
        id \in (IF route \in IdRoutes THEN 1..nextId.student ELSE {0}),
        b \in Bodies(route), t \in {"absent", "tB"}}

\* a request of the administrator of a driving school
Arrive(s) ==
    \E route \in RouteNames, cred \in Credentials :
        /\ cred.role = "ADMIN"
        /\ \E in \in Inputs(route) : NewRequest(s, route, cred, in[1], in[2])

\* a request of anyone else, or without a valid token: one identifier and
\* payload per route
ArriveOther(s) ==
    \E route \in RouteNames, cred \in Credentials :
        /\ cred.role # "ADMIN"
        /\ LET in == CHOOSE x \in Inputs(route) : x[1] \in {0, 1} /\ x[2].tenantId = "absent"
           IN  NewRequest(s, route, cred, in[1], in[2])

Next ==
    \E s \in {"r1"} :
        \/ Arrive(s)
        \/ ArriveOther(s)
        \/ JwtAuthGuard(s)
        \/ RolesGuard(s)
        \/ ValidationPipe(s)
        \/ Create(s)
        \/ FindAll(s)
        \/ FindOne(s)
        \/ UpdateEmail(s)
        \/ UpdateNeph(s)
        \/ UpdateWrite(s)
        \/ ArchiveWrite(s)
        \/ RestoreWrite(s)
        \/ RemoveTx(s)
        \/ GetRemainingMinutes(s)
        \/ PurchaseWrite(s)
        \/ UseWrite(s)
        \/ AuditLog(s)
        \/ GetMe(s)
        \/ Echo(s)

Spec == Init /\ [][Next]_vars

(***************************************************************************)
(* SpecGuards: the guards applied to every request.user and role metadata  *)
(***************************************************************************)
\* guard chains after JwtAuthGuard, as the guards' documentation prescribes
GuardChains ==
    {<<"JwtAuthGuard", "TenantGuard">>,
     <<"JwtAuthGuard", "TenantGuard", "RolesGuard">>,
     <<"JwtAuthGuard", "RolesGuard">>}

\* request.user as JwtAuthGuard may leave it: absent, null, or an object
\* with any role and a tenantId that is missing, null, empty or set
UserObjects ==
    {NoUser, NullUser}
    \cup {[kind |-> "object", userId |-> 1, email |-> "e1", tenantId |-> t, role |-> ro] :
            t \in {"undefined", "null", "", "tA", "tB"}, ro \in Role}

\* @Roles metadata: none, the empty list, every list of one or two distinct
\* roles, and the list of all four
MetaChoices ==
    {NoMeta, Roles(<<>>), Roles(<<"ADMIN", "SECRETARY", "INSTRUCTOR", "STUDENT">>)}
    \cup {Roles(<<a>>) : a \in Role}
    \cup {Roles(<<p[1], p[2]>>) : p \in {q \in Role \X Role : q[1] # q[2]}}

ClassMetaChoices == {NoMeta, Roles(<<>>), Roles(<<"ADMIN", "SECRETARY">>), Roles(<<"STUDENT">>)}

InitGuards ==
    /\ users = InitUsers
    /\ students = InitStudents
    /\ auditLogs = <<>>
    /\ nextId = [user |-> 7, student |-> 3]
    /\ auth = NoSession
    /\ issued = 1
    /\ \E chain \in GuardChains, user \in UserObjects,
          hm \in MetaChoices, cm \in ClassMetaChoices :
            reqs = [s \in Slots |->
                      IF s = "r1"
                      THEN [IdleReq EXCEPT !.pc = "guard", !.guards = chain,
                                           !.ran = <<"JwtAuthGuard">>, !.user = user,
                                           !.handlerRoles = hm, !.classRoles = cm]
                      ELSE IdleReq]

NextGuards == \E s \in Slots : TenantGuard(s) \/ RolesGuard(s)

SpecGuards == InitGuards /\ [][NextGuards]_vars

(***************************************************************************)
(* Properties                                                              *)
(***************************************************************************)
\* the Role Requirement of a request: the roles list RolesGuard reads
Required(r) == getAllAndOverride(r.handlerRoles, r.classRoles)

\* RolesGuard ran on the request
RoleStageRan(r) == \E i \in 1..Len(r.ran) : r.ran[i] = "RolesGuard"

\* the role stage let the request through
RoleStagePassed(r) == \E i \in 1..Len(Passed(r)) : Passed(r)[i] = "RolesGuard"

\* the guard that ran last denied the request
DeniedBy(r, guard) == r.denied /\ r.ran[Len(r.ran)] = guard

\* C1: for a non-empty Role Requirement R and every role, the role check
\* authorizes the principal if and only if its role is a member of R
C1_RoleCheckIffMember ==
    \A s \in Slots :
        LET r == reqs[s]
        IN  (/\ RoleStageRan(r)
             /\ r.user.kind = "object"
             /\ Required(r).defined
             /\ Len(Required(r).roles) > 0)
            => (RoleStagePassed(r) <=> r.user.role \in Range(Required(r).roles))

C1_Witness ==
    \E s \in Slots :
        LET r == reqs[s]
        IN  /\ RoleStagePassed(r)
            /\ Required(r).roles = <<"ADMIN", "SECRETARY">>
            /\ r.user.role = "SECRETARY"

\* C2: with an empty Role Requirement (no role metadata, or the empty list)
\* every principal that passed the earlier stages is authorized
C2_EmptyRequirementAuthorizes ==
    \A s \in Slots :
        LET r == reqs[s]
        IN  (/\ RoleStageRan(r)
             /\ r.user.kind = "object"
             /\ (~Required(r).defined \/ Len(Required(r).roles) = 0))
            => RoleStagePassed(r)

StepOf(db, r, ok) ==
    CASE r.pc = "guard" /\ Guard(r) = "JwtAuthGuard" -> JwtAuthGuardStep(db, r)
      [] r.pc = "guard" /\ Guard(r) = "TenantGuard" -> TenantGuardStep(db, r)
      [] r.pc = "guard" /\ Guard(r) = "RolesGuard" -> RolesGuardStep(db, r)
      [] r.pc = "pipe" -> ValidationPipeStep(db, r)
      [] r.pc = "create" -> CreateStep(db, r)
      [] r.pc = "findAll" -> FindAllStep(db, r)
      [] r.pc = "findOne" -> FindOneStep(db, r)
      [] r.pc = "update_email" -> UpdateEmailStep(db, r)
      [] r.pc = "update_neph" -> UpdateNephStep(db, r)
      [] r.pc = "update_write" -> UpdateWriteStep(db, r)
      [] r.pc = "archive_write" -> ArchiveWriteStep(db, r)
      [] r.pc = "restore_write" -> RestoreWriteStep(db, r)
      [] r.pc = "remove_tx" -> RemoveTxStep(db, r)
      [] r.pc = "getRemainingMinutes" -> GetRemainingMinutesStep(db, r)
      [] r.pc = "purchase_write" -> PurchaseWriteStep(db, r)
      [] r.pc = "use_write" -> UseWriteStep(db, r)
      [] r.pc = "audit" -> AuditLogStep(db, r, ok)
      [] r.pc = "getMe" -> GetMeStep(db, r)
      [] r.pc \in {"adminOnly", "adminOrSecretary"} -> EchoStep(db, r)

InFlight(r) == r.pc \notin {"idle", "done"}

\* the request with the tenant-like value t in its payload
WithTenantLike(r, t) == [r EXCEPT !.body.tenantId = t]

\* two step results that differ at most in the payload's tenant-like value:
\* same tables (rows written), same rows read, same response
SameEffect(a, b) ==
    /\ a.db = b.db
    /\ WithTenantLike(a.req, "absent") = WithTenantLike(b.req, "absent")

\* rows are filtered and stamped with the principal's tenant: what a create
\* inserted and what a list or a read returned belongs to that tenant
StampedWithPrincipalTenant ==
    \A s \in Slots :
        LET r == reqs[s]
        IN  /\ (r.route = "students_create" /\ r.status = 201)
                => /\ students[r.id].tenantId = r.user.tenantId
                   /\ users[students[r.id].userId].tenantId = r.user.tenantId
            /\ r.route \in StudentRoutes
                => \A v \in r.response : v.tenantId = r.user.tenantId

\* C3 as claimed: two requests of a principal that differ only in the
\* tenant-like value of their payload read and write the same rows, at every
\* step of their handling
C3_PayloadTenantIgnored ==
    /\ StampedWithPrincipalTenant
    /\ \A s \in Slots, t \in TenantLike, ok \in BOOLEAN :
          LET r == reqs[s]
          IN  (InFlight(r) /\ r.route \in StudentRoutes)
              => SameEffect(StepOf(Db, WithTenantLike(r, t), ok), StepOf(Db, r, ok))

\* C3 amended: rows are filtered and stamped with the principal's tenantId,
\* and a tenant-like value in the payload changes no step of a request,
\* except that the ValidationPipe rejects with 400 the DTO body (create,
\* update) that carries it, before the handler runs and any row is touched
C3_PayloadTenantIgnoredOrRejected ==
    /\ StampedWithPrincipalTenant
    /\ \A s \in Slots, t \in TenantLike, ok \in BOOLEAN :
          LET r == reqs[s]
              a == StepOf(Db, WithTenantLike(r, t), ok)
              b == StepOf(Db, r, ok)
          IN  (InFlight(r) /\ r.route \in StudentRoutes)
              => \/ SameEffect(a, b)
                 \/ /\ r.pc = "pipe"
                    /\ r.route \in {"students_create", "students_update"}
                    /\ a.db = Db /\ b.db = Db
                    /\ \A x \in {a, b} :
                          x.req.body.tenantId # "absent"
                          => x.req.status = 400 /\ ~x.req.entered /\ x.req.pc = "done"

\* a create that carried another tenant's id was rejected and left the
\* tables as they were
C3_Witness ==
    \E s \in Slots :
        LET r == reqs[s]
        IN  /\ r.route = "students_create" /\ r.body.tenantId = "tB"
            /\ r.user.tenantId = "tA" /\ r.status = 400
            /\ students = InitStudents

\* C4: every predicate of a write to Student (update, delete) carries an
\* equality on tenantId, with the principal's tenantId as its value
C4_MutationPredicatesCarryTenant ==
    \A s \in Slots :
        \A w \in reqs[s].wheres :
            /\ "tenantId" \in DOMAIN w.where
            /\ w.where["tenantId"] = reqs[s].user.tenantId

\* C5: the storage layer hands findOne no row of another tenant (the tenant
\* filter is part of the query)
C5_TenantFilterInSameQuery ==
    \A s \in Slots :
        LET r == reqs[s]
        IN  (r.entered /\ r.student.found) => r.student.row.tenantId = r.user.tenantId

\* the identifier of the request is that of a student of another tenant
CrossTenant(r) ==
    /\ r.entered
    /\ r.route \in IdRoutes
    /\ r.id \in DOMAIN students
    /\ students[r.id].tenantId # r.user.tenantId

\* the step taken by slot s leaves the Student and User rows of every
\* tenant other than its principal's as they are, and adds none
ForeignRowsUnchanged(s) ==
    LET t == reqs[s].user.tenantId
    IN  /\ \A sid \in DOMAIN students :
              students[sid].tenantId # t
              => sid \in DOMAIN students' /\ students'[sid] = students[sid]
        /\ \A sid \in DOMAIN students' \ DOMAIN students : students'[sid].tenantId = t
        /\ \A u \in DOMAIN users :
              users[u].tenantId # t => u \in DOMAIN users' /\ users'[u] = users[u]
        /\ \A u \in DOMAIN users' \ DOMAIN users : users'[u].tenantId = t

Guarded(r) == r.route \in StudentRoutes \cup {"auth_adminOnly", "auth_adminOrSecretary"}

\* C7: a guarded handler runs only after the authentication stage, the
\* tenant-scope stage and the role stage passed, in this order
C7_HandlerAfterThreeStages ==
    \A s \in Slots :
        LET r == reqs[s]
        IN  (r.entered /\ Guarded(r))
            => Passed(r) = <<"JwtAuthGuard", "TenantGuard", "RolesGuard">>

\* C8: on a role-restricted route a request without a valid token is answered
\* 401 by the first stage, the role stage and the handler not running; a
\* request whose principal's role is outside the requirement is answered 403
\* and the handler does not run
C8_ShortCircuit ==
    \A s \in Slots :
        LET r == reqs[s]
        IN  (r.pc \notin {"idle", "guard"} /\ Guarded(r))
            => /\ r.cred.kind # "valid"
                    => /\ r.status = 401 /\ r.pc = "done"
                       /\ r.ran = <<"JwtAuthGuard">>
                       /\ ~r.entered
               /\ (r.user.kind = "object" /\ r.user.role \notin Range(Required(r).roles))
                    => /\ r.status = 403 /\ r.pc = "done"
                       /\ DeniedBy(r, "RolesGuard")
                       /\ ~r.entered

C8_Witness ==
    /\ \E s \in Slots :
          LET r == reqs[s]
          IN  /\ r.route = "auth_adminOnly" /\ r.user.role = "INSTRUCTOR" /\ r.status = 403
    /\ issued = 2

\* C10: a request that presents the valid token of an account that is no
\* longer in the store is answered 401 by the authentication stage, whatever
\* was answered to that token before
C10_DeletedSubjectDenied ==
    \A s \in Slots :
        LET r == reqs[s]
        IN  (r.pc \notin {"idle", "guard"} /\ r.cred.kind = "valid"
             /\ r.cred.sub \notin DOMAIN users)
            => /\ r.status = 401 /\ r.pc = "done"
               /\ DeniedBy(r, "JwtAuthGuard")
               /\ ~r.entered

C10_Witness ==
    \E s \in Slots :
        LET r == reqs[s]
        IN  /\ r.cred.kind = "valid" /\ r.cred.sub = 5 /\ 5 \notin DOMAIN users
            /\ r.status = 401

(***************************************************************************)
(* SpecFresh: requests with tokens issued before an account was changed    *)
(***************************************************************************)
\* changes made to an account after its token was issued: the secretary
\* demoted to instructor, the instructor promoted to administrator, the
\* administrator of tA moved to tB
AccountChanges ==
    {[InitUsers EXCEPT ![2].role = "INSTRUCTOR"],
     [InitUsers EXCEPT ![3].role = "ADMIN"],
     [InitUsers EXCEPT ![1].tenantId = "tB"]}

InitFresh ==
    /\ users \in AccountChanges
    /\ students = InitStudents
    /\ auditLogs = <<>>
    /\ nextId = [user |-> 7, student |-> 3]
    /\ auth = NoSession
    /\ reqs = [s \in Slots |-> IdleReq]
    /\ issued = 0

SpecFresh == InitFresh /\ [][Next]_vars

\* the authentication stage let the request through
Authenticated(r) == Len(Passed(r)) >= 1 /\ Passed(r)[1] = "JwtAuthGuard"

\* the token's claims differ from what the store holds for its subject
StaleToken(r) ==
    /\ r.cred.kind = "valid"
    /\ r.cred.sub \in DOMAIN users
    /\ (r.cred.role # users[r.cred.sub].role \/ r.cred.tenantId # users[r.cred.sub].tenantId)

\* C11: the principal of an authenticated request carries the tenantId and
\* the role the store holds for the subject, whatever the token claims; the
\* role stage decides on the stored role and the handlers filter on the
\* stored tenant
C11_PrincipalFromStore ==
    \A s \in Slots :
        LET r == reqs[s]
            u == users[r.cred.sub]
        IN  (Authenticated(r) /\ r.cred.sub \in DOMAIN users)
            => /\ r.user.role = u.role
               /\ r.user.tenantId = u.tenantId
               /\ (RoleStageRan(r) /\ Required(r).defined /\ Len(Required(r).roles) > 0)
                    => (RoleStagePassed(r) <=> u.role \in Range(Required(r).roles))
               /\ (r.route \in StudentRoutes /\ r.pc = "done")
                    => \A v \in r.response : v.tenantId = u.tenantId

\* the demoted secretary's old token is refused on a secretary's route, and
\* the moved administrator's old token reads a student of the new tenant
C11_Witness ==
    \E s \in Slots :
        LET r == reqs[s]
        IN  /\ StaleToken(r) /\ r.pc = "done"
            /\ \/ /\ r.cred.role = "SECRETARY" /\ r.route = "students_findAll"
                  /\ r.status = 403 /\ DeniedBy(r, "RolesGuard")
               \/ /\ r.cred.tenantId = "tA" /\ r.route = "students_findOne"
                  /\ r.status = 200 /\ r.response = {View(2, students[2])}

\* the authentication stage ran on the request
AuthStageRan(r) == Len(r.ran) >= 1 /\ r.ran[1] = "JwtAuthGuard"

\* C12: resolution yields a principal with the subject's id, a non-empty
\* tenantId, a role and an e-mail, or fails and leaves no principal at all
C12_PrincipalCompleteOrAbsent ==
    \A s \in Slots :
        LET r == reqs[s]
        IN  /\ Authenticated(r)
                => /\ r.user.kind = "object"
                   /\ r.user.userId = r.cred.sub
                   /\ r.user.tenantId \notin {"undefined", "null", ""}
                   /\ r.user.tenantId \in Tenants
                   /\ r.user.role \in Role
                   /\ r.user.email # ""
            /\ ~Authenticated(r) => r.user = NoUser

\* resolution failed for the token of a deleted subject and left no principal
C12_Witness ==
    \E s \in Slots :
        LET r == reqs[s]
        IN  /\ AuthStageRan(r) /\ DeniedBy(r, "JwtAuthGuard")
            /\ r.cred.kind = "valid" /\ r.cred.sub \notin DOMAIN users
            /\ r.user = NoUser

\* the tenant-scope stage ran on the request, and let it through
TenantStageRan(r) == \E i \in 1..Len(r.ran) : r.ran[i] = "TenantGuard"

TenantStagePassed(r) == \E i \in 1..Len(Passed(r)) : Passed(r)[i] = "TenantGuard"

\* C13: TenantGuard lets a request through if and only if request.user is
\* an object whose tenantId is a non-empty value, and the user's role does
\* not change its answer
C13_TenantGuardIffTenant ==
    \A s \in Slots :
        LET r == reqs[s]
        IN  TenantStageRan(r)
            => /\ TenantStagePassed(r)
                    <=> (r.user.kind = "object" /\ r.user.tenantId \in {"tA", "tB"})
               /\ ~TenantStagePassed(r) => DeniedBy(r, "TenantGuard")
               /\ \A ro \in Role \cup {""} :
                    TenantGuardCanActivate([r.user EXCEPT !.role = ro])
                        = (IF TenantStagePassed(r) THEN "true" ELSE "false")

C13_Witness ==
    \E s \in Slots :
        LET r == reqs[s]
        IN  /\ TenantStagePassed(r)
            /\ r.user.role = "STUDENT" /\ r.user.tenantId = "tB"

(***************************************************************************)
(* SpecMinutes: two requests on the minutes of student 1, interleaved at   *)
(* the awaits of their handlers                                            *)
(***************************************************************************)
\* the administrator of tA consumes or purchases minutes for student 1, or
\* sets its minutesPurchased with an update
ArriveMinutes(s) ==
    \E route \in {"students_addUsedHours", "students_addPurchasedHours", "students_update"} :
        \E body \in IF route = "students_update"
                    THEN {[NoBody EXCEPT !.minutesPurchased = 0]}
                    ELSE Bodies(route) :
            NewRequest(s, route, generateToken(1, "tA", "ADMIN"), 1, body)

NextMinutes ==
    \E s \in Slots :
        \/ ArriveMinutes(s)
        \/ JwtAuthGuard(s)
        \/ RolesGuard(s)
        \/ ValidationPipe(s)
        \/ FindOne(s)
        \/ UpdateWrite(s)
        \/ PurchaseWrite(s)
        \/ UseWrite(s)
        \/ AuditLog(s)

SpecMinutes == Init /\ [][NextMinutes]_vars

\* slot s applies the write of a consumption in this step
ConsumeApplied(s) ==
    /\ reqs[s].route = "students_addUsedHours"
    /\ reqs[s].pc = "use_write"
    /\ reqs'[s].pc = "audit"

\* C14: right after the write of a successful consumption the student's
\* minutesUsed is at most its minutesPurchased, whatever requests interleave
C14_UsedAtMostPurchased ==
    [][\A s \in Slots :
          ConsumeApplied(s)
          => students'[reqs[s].id].minutesUsed <= students'[reqs[s].id].minutesPurchased]_vars

\* the consumption of the request exceeds what the student it read had left
OverConsumption(r) ==
    /\ r.route = "students_addUsedHours"
    /\ r.entered
    /\ r.student.found
    /\ r.student.row.tenantId = r.user.tenantId
    /\ r.body.minutes > r.student.row.minutesPurchased - r.student.row.minutesUsed

\* C15: a consumption of more minutes than the student has left is answered
\* 409 Conflict without a write, and the step that rejects it leaves the
\* students and the audit records as they are
C15_OverConsumptionRejected ==
    /\ [](\A s \in Slots :
            LET r == reqs[s]
            IN  OverConsumption(r)
                => /\ r.status = 409 /\ r.pc = "done"
                   /\ r.wheres = {}
                   /\ r.response = {})
    /\ [][\A s \in Slots :
            (reqs'[s].route = "students_addUsedHours" /\ reqs'[s].status = 409
             /\ reqs[s].status # 409)
            => /\ students' = students
               /\ auditLogs' = auditLogs]_vars

\* student 1 has one minute left and the consumption of two was refused
C15_Witness ==
    \E s \in Slots :
        LET r == reqs[s]
        IN  /\ OverConsumption(r) /\ r.status = 409
            /\ r.body.minutes = 2
            /\ students[1].minutesPurchased - students[1].minutesUsed = 1
            /\ students[1] = InitStudents[1]
            /\ auditLogs = <<>>

\* the routes whose service method calls AuditService.log
AuditedRoutes == {"students_archive", "students_restore",
                  "students_addPurchasedHours", "students_addUsedHours"}

\* the Student row shows the mutation of the request
MutationInEffect(r) ==
    LET st == students[r.id]
        was == r.student.row
    IN  /\ r.id \in DOMAIN students
        /\ CASE r.route = "students_archive" ->
                    st.archivedAt = "date" /\ st.status = "ARCHIVED"
             [] r.route = "students_restore" ->
                    st.archivedAt = "null" /\ st.status = "ACTIVE"
             [] r.route = "students_addPurchasedHours" ->
                    st.minutesPurchased = was.minutesPurchased + r.body.minutes
             [] r.route = "students_addUsedHours" ->
                    st.minutesUsed = was.minutesUsed + r.body.minutes

\* slot s returns from AuditService.log in this step
AuditReturned(s) == reqs[s].pc = "audit" /\ reqs'[s].pc # "audit"

\* C16: AuditService.log returns to its caller whether the insert worked or
\* not: the operation answers its success status with the row it wrote, and
\* the mutation stays in the store
C16_AuditFailureSwallowed ==
    /\ [][\A s \in Slots :
            AuditReturned(s)
            => /\ reqs'[s].pc = "done" /\ reqs'[s].status = 200
               /\ reqs'[s].response = reqs[s].response
               /\ students' = students /\ users' = users
               /\ auditLogs' \in {auditLogs, Append(auditLogs, AuditData(reqs[s]))}]_vars
    /\ [](\A s \in Slots :
            LET r == reqs[s]
            IN  (r.route \in AuditedRoutes /\ r.entered /\ r.pc \in {"audit", "done"}
                 /\ r.status \in {0, 200})
                => MutationInEffect(r))

\* student 1 was archived and its request answered 200 although the insert
\* of the audit record failed
C16_Witness ==
    \E s \in Slots :
        LET r == reqs[s]
        IN  /\ r.route = "students_archive" /\ r.id = 1
            /\ r.pc = "done" /\ r.status = 200
            /\ students[1].archivedAt = "date"
            /\ auditLogs = <<>>

\* the audit record of slot s's request is the one new record of this step
OneNewAuditRecord(s) ==
    /\ Len(auditLogs') = Len(auditLogs) + 1
    /\ SubSeq(auditLogs', 1, Len(auditLogs)) = auditLogs
    /\ LET rec == auditLogs'[Len(auditLogs')]
       IN  /\ rec.tenantId = reqs[s].user.tenantId
           /\ rec.actorUserId = reqs[s].user.userId
           /\ rec.entityType = "Student"
           /\ rec.entityId = reqs[s].id

Rejected(s) == reqs[s].status = 0 /\ reqs'[s].status \in {400, 401, 403, 404, 409}

\* C18: an audit record is written only by a request whose mutation is in
\* the store already, and a request that is rejected (unknown or foreign
\* identifier, restore of a student that is not archived, consumption above
\* the remaining minutes) writes none, neither then nor later
C18_AuditOnlyAfterEffect ==
    /\ [][auditLogs' # auditLogs
            => \E s \in Slots :
                  /\ reqs[s].pc = "audit"
                  /\ reqs[s].wheres # {}
                  /\ MutationInEffect(reqs[s])
                  /\ OneNewAuditRecord(s)]_vars
    /\ [][\A s \in Slots :
            Rejected(s)
            => /\ auditLogs' = auditLogs
               /\ reqs'[s].pc = "done"
               /\ reqs[s].route \in AuditedRoutes
                    => students' = students /\ reqs'[s].wheres = {}]_vars

\* the archive of student 1 left its record, and the later consumption of
\* two minutes, refused, left none
C18_Witness ==
    /\ Len(auditLogs) = 1
    /\ auditLogs[1].action = "STUDENT_ARCHIVED"
    /\ 1 \in DOMAIN students /\ students[1].archivedAt = "date"
    /\ \E s \in Slots : /\ reqs[s].route = "students_addUsedHours"
                        /\ reqs[s].status = 409

\* the response of the request has been sent
Responded(r) == r.status # 0

\* C19: the success response of an audited mutation does not wait for the
\* audit insert: once the mutation is written and while the insert is
\* pending, the response has been sent
C19_ResponseNotHeldByAudit ==
    \A s \in Slots :
        LET r == reqs[s]
        IN  (r.route \in AuditedRoutes /\ r.pc = "audit") => Responded(r)

\* C20: every audit record carries the tenant of the principal that caused
\* it, and no step removes or changes a record: the sequence of records only
\* grows at its end
C20_AuditAppendOnly ==
    /\ [](\A i \in 1..Len(auditLogs) :
            /\ auditLogs[i].tenantId \in Tenants
            /\ auditLogs[i].actorUserId \in DOMAIN users
            /\ users[auditLogs[i].actorUserId].tenantId = auditLogs[i].tenantId
            /\ auditLogs[i].entityId \in DOMAIN students
                => students[auditLogs[i].entityId].tenantId = auditLogs[i].tenantId)
    /\ [][/\ Len(auditLogs') >= Len(auditLogs)
          /\ SubSeq(auditLogs', 1, Len(auditLogs)) = auditLogs]_vars

\* student 1 and its account were deleted after its archive was recorded,
\* and the record is still there
C20_Witness ==
    /\ Len(auditLogs) = 1
    /\ auditLogs[1].entityId = 1 /\ auditLogs[1].tenantId = "tA"
    /\ 1 \notin DOMAIN students
    /\ 5 \notin DOMAIN users

(***************************************************************************)
(* AuditService read paths                                                 *)
(***************************************************************************)
Reverse(seq) == [i \in 1..Len(seq) |-> seq[Len(seq) + 1 - i]]

\* findMany without take
NoTake == -1

\* prisma.auditLog.findMany({ where, orderBy: { createdAt: 'desc' }, take }):
\* where is a conjunction of equalities; the records are stored in the order
\* of their creation
auditLogFindMany(db, where, take) ==
    LET hits == Reverse(SelectSeq(db.auditLogs,
                                  LAMBDA a : \A f \in DOMAIN where : a[f] = where[f]))
    IN  IF take = NoTake \/ take >= Len(hits) THEN hits ELSE SubSeq(hits, 1, take)

\* mutant of getLogs: the tenant filter is missing
getLogsUnfiltered(db, tenantId, limit) == auditLogFindMany(db, <<>>, limit)

\* AuditService.getLogs
getLogs(db, tenantId, limit) == auditLogFindMany(db, [tenantId |-> tenantId], limit)

\* AuditService.getLogsForEntity
getLogsForEntity(db, tenantId, entityType, entityId) ==
    auditLogFindMany(db, [tenantId |-> tenantId, entityType |-> entityType,
                          entityId |-> entityId], NoTake)

\* AuditService.getLogsForUser
getLogsForUser(db, tenantId, userId) ==
    auditLogFindMany(db, [tenantId |-> tenantId, actorUserId |-> userId], NoTake)

\* a call of a read method of AuditService: one findMany; the slot keeps the
\* arguments of the call as its body and the records returned as its response
AuditRead(s, method, args, result) ==
    /\ reqs[s].pc \in {"idle", "done"}
    /\ issued < MaxRequests
    /\ issued' = issued + 1
    /\ reqs' = [reqs EXCEPT ![s] =
                  [IdleReq EXCEPT !.pc = "done", !.route = method, !.body = args,
                                  !.response = result]]
    /\ UNCHANGED <<users, students, auditLogs, nextId, auth>>

GetLogs(s) ==
    \E tenantId \in Tenants, limit \in {1, 100} :
        AuditRead(s, "audit_getLogs", [tenantId |-> tenantId, limit |-> limit],
                  getLogs(Db, tenantId, limit))

GetLogsForEntity(s) ==
    \E tenantId \in Tenants, entityId \in DOMAIN InitStudents :
        AuditRead(s, "audit_getLogsForEntity",
                  [tenantId |-> tenantId, entityType |-> "Student", entityId |-> entityId],
                  getLogsForEntity(Db, tenantId, "Student", entityId))

GetLogsForUser(s) ==
    \E tenantId \in Tenants, userId \in {1, 2, 4} :
        AuditRead(s, "audit_getLogsForUser", [tenantId |-> tenantId, userId |-> userId],
                  getLogsForUser(Db, tenantId, userId))

AuditReadRoutes == {"audit_getLogs", "audit_getLogsForEntity", "audit_getLogsForUser"}

\* records AuditService.log wrote: archives of student 1 by the administrator
\* and the secretary of tA, of student 2 by the administrator of tB, and of
\* student 2 by the administrator of tA after that account moved to tB
AuditRecords ==
    {[tenantId |-> t[1], actorUserId |-> t[2], action |-> "STUDENT_ARCHIVED",
      entityType |-> "Student", entityId |-> t[3],
      metadata |-> [previousStatus |-> "ACTIVE"]] :
        t \in {<<"tA", 1, 1>>, <<"tA", 2, 1>>, <<"tB", 4, 2>>, <<"tB", 1, 2>>}}

RECURSIVE SeqsUpTo(_, _)
SeqsUpTo(S, n) ==
    IF n = 0 THEN {<<>>}
    ELSE LET shorter == SeqsUpTo(S, n - 1)
         IN  shorter \cup {Append(q, x) : q \in shorter, x \in S}

InitAudit ==
    /\ users = InitUsers
    /\ students = InitStudents
    /\ auditLogs \in SeqsUpTo(AuditRecords, MaxTrail)
    /\ nextId = [user |-> 7, student |-> 3]
    /\ auth = NoSession
    /\ reqs = [s \in Slots |-> IdleReq]
    /\ issued = 0

NextAudit == \E s \in Slots : GetLogs(s) \/ GetLogsForEntity(s) \/ GetLogsForUser(s)

SpecAudit == InitAudit /\ [][NextAudit]_vars

\* C21: every read method of AuditService returns records of the tenantId it
\* was called with only, and all of them are records of the store
C21_AuditReadsTenantFiltered ==
    \A s \in Slots :
        LET r == reqs[s]
        IN  r.route \in AuditReadRoutes
            => \A i \in 1..Len(r.response) :
                  /\ r.response[i].tenantId = r.body.tenantId
                  /\ r.response[i] \in Range(auditLogs)

\* the store holds records of both tenants and each read method returned the
\* one of the tenant asked for
C21_Witness ==
    /\ {auditLogs[i].tenantId : i \in 1..Len(auditLogs)} = Tenants
    /\ \E s \in Slots :
          /\ reqs[s].route = "audit_getLogs"
          /\ reqs[s].body.tenantId = "tA"
          /\ Len(reqs[s].response) = 1
    /\ \E s \in Slots :
          /\ reqs[s].route = "audit_getLogsForUser"
          /\ reqs[s].body.tenantId = "tB"
          /\ reqs[s].body.userId = 1
          /\ Len(reqs[s].response) = 1

\* C22: a step that adds an audit record adds one whose tenantId is the
\* tenantId of the principal of the request, whose actor is that principal's
\* subject, and whose entity is a student of that tenant
C22_AuditRecordOfPrincipal ==
    [][auditLogs' # auditLogs
        => \E s \in Slots :
              LET r == reqs[s]
                  rec == auditLogs'[Len(auditLogs')]
              IN  /\ r.pc = "audit" /\ reqs'[s].pc = "done"
                  /\ auditLogs' = Append(auditLogs, rec)
                  /\ rec.tenantId = r.user.tenantId
                  /\ r.cred.sub \in DOMAIN users
                  /\ rec.tenantId = users[r.cred.sub].tenantId
                  /\ rec.actorUserId = r.cred.sub
                  /\ rec.actorUserId = r.user.userId
                  /\ rec.entityType = "Student"
                  /\ rec.entityId \in DOMAIN students
                  /\ students[rec.entityId].tenantId = rec.tenantId]_vars

\* the administrator moved from tA to tB restored student 2 of tB with the
\* token issued in tA, and the record is one of tB
C22_Witness ==
    /\ Len(auditLogs) >= 1
    /\ auditLogs[1].tenantId = "tB"
    /\ auditLogs[1].actorUserId = 1
    /\ auditLogs[1].entityId = 2
    /\ users[1].tenantId = "tB"

\* C23: the role requirement of DELETE /students/:id is the handler's
\* {ADMIN}; a Student or User row disappears only in a step of a remove
\* request whose principal is an ADMIN, and the remove of any other role is
\* answered 403 before the handler
C23_RemoveAdminOnly ==
    /\ [](\A s \in Slots :
            LET r == reqs[s]
            IN  r.route = "students_remove"
                => /\ Required(r) = Roles(<<"ADMIN">>)
                   /\ (r.user.kind = "object" /\ r.user.role # "ADMIN"
                       /\ r.pc \notin {"guard"})
                        => /\ r.status = 403 /\ DeniedBy(r, "RolesGuard")
                           /\ ~r.entered /\ r.wheres = {})
    /\ [][(DOMAIN students' # DOMAIN students \cup DOMAIN students'
           \/ DOMAIN users' # DOMAIN users \cup DOMAIN users')
          => \E s \in Slots :
                /\ reqs[s].route = "students_remove"
                /\ reqs[s].pc = "remove_tx"
                /\ reqs[s].user.role = "ADMIN"
                /\ reqs[s].cred.sub \in DOMAIN users
                /\ users[reqs[s].cred.sub].role = "ADMIN"]_vars

\* the remove of student 1 by the secretary of its tenant was refused and
\* the student and its account are still there
C23_Witness ==
    \E s \in Slots :
        LET r == reqs[s]
        IN  /\ r.route = "students_remove" /\ r.id = 1
            /\ r.user.role = "SECRETARY" /\ r.user.tenantId = "tA"
            /\ r.status = 403
            /\ 1 \in DOMAIN students /\ 5 \in DOMAIN users

\* C24: every student has 0 <= minutesUsed <= minutesPurchased
C24_MinutesWithinPurchase ==
    \A sid \in DOMAIN students :
        /\ 0 <= students[sid].minutesUsed
        /\ students[sid].minutesUsed <= students[sid].minutesPurchased

\* the consumption of the request was written and not refused
Consumed(r) ==
    /\ r.route = "students_addUsedHours"
    /\ r.pc \in {"audit", "done"}
    /\ r.wheres # {}
    /\ r.status \in {0, 200}

\* C25: when the only two requests received are consumptions for student 1
\* and both were written, its minutesUsed is the initial value plus both
\* amounts
C25_NoLostConsumption ==
    (/\ issued = 2
     /\ Consumed(reqs["r1"]) /\ Consumed(reqs["r2"])
     /\ reqs["r1"].id = 1 /\ reqs["r2"].id = 1)
    => students[1].minutesUsed
           = InitStudents[1].minutesUsed + reqs["r1"].body.minutes + reqs["r2"].body.minutes

\* slot s writes the minutes of a purchase or of a consumption in this step
MinutesWritten(s) ==
    /\ reqs[s].pc \in {"purchase_write", "use_write"}
    /\ reqs'[s].pc = "audit"

\* C26: the previous and new values in the audit record of a purchase or a
\* consumption are the values the store held right before and right after
\* the write of that request
C26_AuditValuesAreStoredValues ==
    [][\A s \in Slots :
          MinutesWritten(s)
          => LET m == AuditData(reqs'[s]).metadata
                 before == students[reqs[s].id]
                 after == students'[reqs[s].id]
             IN  IF m.type = "PURCHASE"
                 THEN /\ m.previousMinutesPurchased = before.minutesPurchased
                      /\ m.newMinutesPurchased = after.minutesPurchased
                 ELSE /\ m.previousMinutesUsed = before.minutesUsed
                      /\ m.newMinutesUsed = after.minutesUsed]_vars

(***************************************************************************)
(* C27: update and its rejections                                          *)
(***************************************************************************)
\* the update of slot s was rejected by its handler
UpdateRejected(r) ==
    /\ r.route = "students_update"
    /\ r.pc = "done"
    /\ r.entered
    /\ r.status \in {403, 404, 409}

\* C27: an update is all or nothing: when the first request of a run is an
\* update that its handler rejects, the Student rows and the User rows are
\* the ones the request found
C27_RejectedUpdateLeavesRowsUnchanged ==
    \A s \in Slots :
        (issued = 1 /\ UpdateRejected(reqs[s]))
        => (users = InitUsers /\ students = InitStudents)

(***************************************************************************)
(* C28: status and archivedAt                                              *)
(***************************************************************************)
\* C28: in every reachable state a student has status ARCHIVED exactly when
\* its archivedAt is set
C28_ArchivedIffArchivedAt ==
    \A sid \in DOMAIN students :
        students[sid].status = "ARCHIVED" <=> students[sid].archivedAt # "null"

(***************************************************************************)
(* SpecHours: a read of the hours of student 1 interleaved, at the awaits  *)
(* of the handlers, with purchases and consumptions on the same student    *)
(***************************************************************************)
\* the administrator of tA reads the hours of student 1, purchases minutes
\* for it or consumes some
ArriveHours(s) ==
    \E route \in {"students_getHours", "students_addPurchasedHours", "students_addUsedHours"} :
        \E body \in Bodies(route) :
            NewRequest(s, route, generateToken(1, "tA", "ADMIN"), 1, body)

NextHours ==
    \E s \in Slots :
        \/ ArriveHours(s)
        \/ JwtAuthGuard(s)
        \/ RolesGuard(s)
        \/ ValidationPipe(s)
        \/ GetRemainingMinutes(s)
        \/ FindOne(s)
        \/ PurchaseWrite(s)
        \/ UseWrite(s)
        \/ AuditLog(s)

SpecHours == Init /\ [][NextHours]_vars

\* the response of GET /students/:id/hours has been produced
HoursReturned(r) ==
    /\ r.route = "students_getHours"
    /\ r.pc = "done"
    /\ r.status = 200

\* C29: the response of GET /students/:id/hours satisfies minutesRemaining =
\* minutesPurchased - minutesUsed, also when purchases or consumptions on the
\* same student run concurrently with the read
C29_HoursResponseConsistent ==
    \A s \in Slots :
        HoursReturned(reqs[s])
        => reqs[s].hours.minutesRemaining
           = reqs[s].hours.minutesPurchased - reqs[s].hours.minutesUsed

(***************************************************************************)
(* SpecAuth: the frontend AuthProvider, its localStorage and the calls of  *)
(* authApi it has in flight                                                *)
(***************************************************************************)
\* User objects the backend returns: the account and the e-mail it has when
\* the response is built
Accounts == {"a1", "a2"}

Emails == {"old", "new"}

UserObject(account, email) == [id |-> account, email |-> email]

FrontUsers == {UserObject(a, e) : a \in Accounts, e \in Emails}

\* localStorage as login or register left it in an earlier visit, or empty
StoredSessions ==
    {[access_token |-> "null", savedUser |-> NoOne]}
    \cup {[access_token |-> u.id, savedUser |-> u] : u \in FrontUsers}

InitAuth ==
    /\ users = InitUsers
    /\ students = InitStudents
    /\ auditLogs = <<>>
    /\ nextId = [user |-> 7, student |-> 3]
    /\ reqs = [s \in Slots |-> IdleReq]
    /\ issued = 0
    /\ \E ls \in StoredSessions :
          auth = [NoSession EXCEPT !.access_token = ls.access_token,
                                   !.savedUser = ls.savedUser]

Server == <<users, students, auditLogs, nextId, reqs, issued>>

\* the mount effect: loadUser up to its first await
LoadUser ==
    /\ auth.loadUser = "mount"
    /\ auth' = IF auth.access_token # "null" /\ auth.savedUser # NoOne
               THEN [auth EXCEPT !.user = auth.savedUser, !.loadUser = "me"]
               ELSE [auth EXCEPT !.isLoading = FALSE, !.loadUser = "done"]
    /\ UNCHANGED Server

\* loadUser: authApi.me() resolves with the user of the token that was sent
MeResolves ==
    /\ auth.loadUser = "me"
    /\ \E freshUser \in FrontUsers :
          auth' = [auth EXCEPT !.user = freshUser, !.savedUser = freshUser,
                               !.isLoading = FALSE, !.loadUser = "done"]
    /\ UNCHANGED Server

\* loadUser: authApi.me() rejects (the catch block)
MeRejects ==
    /\ auth.loadUser = "me"
    /\ auth' = [auth EXCEPT !.access_token = "null", !.savedUser = NoOne, !.user = NoOne,
                            !.isLoading = FALSE, !.loadUser = "done"]
    /\ UNCHANGED Server

\* login is called: authApi.login is in flight
LoginCall ==
    /\ auth.login = "idle"
    /\ auth' = [auth EXCEPT !.login = "pending"]
    /\ UNCHANGED Server

\* login: authApi.login resolves; the token and the user are saved
LoginResolves ==
    /\ auth.login = "pending"
    /\ \E u \in FrontUsers :
          auth' = [auth EXCEPT !.access_token = u.id, !.savedUser = u, !.user = u,
                               !.login = "idle"]
    /\ UNCHANGED Server

\* login: authApi.login rejects; the error goes to the caller
LoginRejects ==
    /\ auth.login = "pending"
    /\ auth' = [auth EXCEPT !.login = "idle"]
    /\ UNCHANGED Server

\* register is called: authApi.register is in flight
RegisterCall ==
    /\ auth.register = "idle"
    /\ auth' = [auth EXCEPT !.register = "pending"]
    /\ UNCHANGED Server

\* register: authApi.register resolves; the token and the user are saved
RegisterResolves ==
    /\ auth.register = "pending"
    /\ \E u \in FrontUsers :
          auth' = [auth EXCEPT !.access_token = u.id, !.savedUser = u, !.user = u,
                               !.register = "idle"]
    /\ UNCHANGED Server

\* register: authApi.register rejects
RegisterRejects ==
    /\ auth.register = "pending"
    /\ auth' = [auth EXCEPT !.register = "idle"]
    /\ UNCHANGED Server

\* logout
Logout ==
    /\ auth' = [auth EXCEPT !.access_token = "null", !.savedUser = NoOne, !.user = NoOne]
    /\ UNCHANGED Server

NextAuth ==
    \/ LoadUser
    \/ MeResolves
    \/ MeRejects
    \/ LoginCall
    \/ LoginResolves
    \/ LoginRejects
    \/ RegisterCall
    \/ RegisterResolves
    \/ RegisterRejects
    \/ Logout

SpecAuth == InitAuth /\ [][NextAuth]_vars

\* the state logout leaves: no user, no stored token, no stored user
LoggedOut(a) == a.user = NoOne /\ a.access_token = "null" /\ a.savedUser = NoOne

\* login or register completes in this step
SignInCompletes ==
    \/ auth.login = "pending" /\ auth'.login = "idle"
    \/ auth.register = "pending" /\ auth'.register = "idle"

\* C30: once logout has been called the user state stays null and the stored
\* token and user stay removed until the next login or register completes,
\* even if the authApi.me() of the mount effect is still in flight
C30_LogoutHolds ==
    [][(LoggedOut(auth) /\ ~SignInCompletes) => LoggedOut(auth')]_vars
====
